---- MODULE Spec2Model ----
(***************************************************************************)
(* Model of scrapping_scripts/optimal.py: class TimetableOptimizer.         *)
(*                                                                         *)
(* Strings are sequences of character codes (ASCII), so that lower(),      *)
(* slicing, split(':'), int() and the f-string rendering are computed as   *)
(* the code computes them.  Python floats are modelled by exact rationals  *)
(* [num, den] kept in lowest terms, and float('-inf') by NegInf.           *)
(* Python lists of activity dicts are lists of references <<s, a>> into    *)
(* data.subjects (dict number a, in values() order, of subject entry s).   *)
(***************************************************************************)
EXTENDS Integers, Sequences, FiniteSets, TLC

VARIABLES
    data,               \* self.data: [subjects, optimization]
    pc,                 \* position of the caller: "idle", "search", "returned", "done"
    subject_activities, \* local of optimize_timetable (ordered dict of ordered dicts)
    stack,              \* call stack of the two nested recursive closures
    best_combination,   \* nonlocal best_combination
    best_score,         \* nonlocal best_score
    scored,             \* history: the selections handed to the scoring step, in order
    result,             \* value returned by TimetableOptimizer.optimize_timetable
    output,             \* value returned by format_output
    ret,                \* last call of a scoring function: [fn, args, value]
    scraper             \* UnitRequirementsScraper: its files and its batch in progress

vars == <<data, pc, subject_activities, stack, best_combination, best_score,
          scored, result, output, ret, scraper>>

\* ------------------------------------------------------------------ bounds
MaxSubjects == 2
MaxActivities == 4
MaxAvoid == 2
MaxList == 3
MaxRows == 3
MaxBatches == 3
MaxBatchSize == 2

\* ------------------------------------------------------------- strings
c_colon == 58
c_space == 32
c_bar == 124
c_lpar == 40
c_rpar == 41

IsUpper(c) == c \in 65..90

\* str.lower()
Lower(s) == [i \in DOMAIN s |-> IF IsUpper(s[i]) THEN s[i] + 32 ELSE s[i]]

\* s[:3]
Prefix3(s) == SubSeq(s, 1, IF Len(s) < 3 THEN Len(s) ELSE 3)

\* Recursive and arithmetic operators bind their arguments to values
\* (x \in {argument}) before they use them, so that an argument is evaluated
\* once however often the body refers to it.

\* int(s) for a string of decimal digits
RECURSIVE ParseInt(_)
ParseInt(str) ==
    CHOOSE r \in {IF Len(s) = 0 THEN 0
                  ELSE 10 * ParseInt(SubSeq(s, 1, Len(s) - 1)) + (s[Len(s)] - 48) :
                  s \in {str}} : TRUE

\* position of the first ':' of s (0 when there is none)
ColonAt(s) ==
    IF \E i \in DOMAIN s : s[i] = c_colon
    THEN CHOOSE i \in DOMAIN s : s[i] = c_colon /\ \A j \in 1..(i - 1) : s[j] # c_colon
    ELSE 0

\* lexicographic order of strings by character code (Python's str <)
RECURSIVE StrLess(_, _)
StrLess(str1, str2) ==
    \E s \in {str1}, t \in {str2} :
        IF Len(t) = 0 THEN FALSE
        ELSE IF Len(s) = 0 THEN TRUE
        ELSE IF s[1] # t[1] THEN s[1] < t[1]
        ELSE StrLess(Tail(s), Tail(t))

StrLeq(s, t) == s = t \/ StrLess(s, t)

\* ------------------------------------------------------------- floats
RECURSIVE GCD(_, _)
GCD(m, n) ==
    CHOOSE r \in {IF b = 0 THEN a ELSE GCD(b, a % b) : a \in {m}, b \in {n}} : TRUE

Abs(x) == IF x < 0 THEN -x ELSE x

\* the rational n/d (d > 0) in lowest terms
Rat(numerator, denominator) ==
    CHOOSE r \in {[num |-> n \div GCD(Abs(n), d), den |-> d \div GCD(Abs(n), d)] :
                      n \in {numerator}, d \in {denominator}} : TRUE

NegInf == [num |-> -1, den |-> 0]
Zero == Rat(0, 1)
One == Rat(1, 1)

IsInf(x) == x.den = 0

RAdd(a, b) ==
    CHOOSE r \in {Rat(x.num * y.den + y.num * x.den, x.den * y.den) :
                      x \in {a}, y \in {b}} : TRUE
RSub(a, b) ==
    CHOOSE r \in {Rat(x.num * y.den - y.num * x.den, x.den * y.den) :
                      x \in {a}, y \in {b}} : TRUE
RMul(a, b) ==
    CHOOSE r \in {Rat(x.num * y.num, x.den * y.den) : x \in {a}, y \in {b}} : TRUE
RDivInt(a, n) ==
    CHOOSE r \in {Rat(x.num, x.den * n) : x \in {a}} : TRUE

\* x > y on floats, float('-inf') included
RGt(a, b) ==
    \E x \in {a}, y \in {b} :
        IF IsInf(x) THEN FALSE
        ELSE IF IsInf(y) THEN TRUE
        ELSE LET g == GCD(x.den, y.den)
             IN  x.num * (y.den \div g) > y.num * (x.den \div g)

RGeq(a, b) == \E x \in {a}, y \in {b} : x = y \/ RGt(x, y)

RECURSIVE RSum(_)
RSum(scores) ==
    CHOOSE r \in {IF Len(xs) = 0 THEN Zero
                  ELSE RAdd(RSum(SubSeq(xs, 1, Len(xs) - 1)), xs[Len(xs)]) :
                  xs \in {scores}} : TRUE

\* ------------------------------------------------------ string literals
s_Mon == <<77, 111, 110>>   \* "Mon"
s_Tue == <<84, 117, 101>>   \* "Tue"
s_Wed == <<87, 101, 100>>   \* "Wed"
s_Thu == <<84, 104, 117>>   \* "Thu"
s_Fri == <<70, 114, 105>>   \* "Fri"
s_Sat == <<83, 97, 116>>   \* "Sat"
s_Sun == <<83, 117, 110>>   \* "Sun"
s_tue == <<116, 117, 101>>   \* "tue"
s_thu == <<116, 104, 117>>   \* "thu"
s_Monday == <<77, 111, 110, 100, 97, 121>>   \* "Monday"
s_TUESDAY == <<84, 85, 69, 83, 68, 65, 89>>   \* "TUESDAY"
s_wednesday == <<119, 101, 100, 110, 101, 115, 100, 97, 121>>   \* "wednesday"
s_Lecture == <<76, 101, 99, 116, 117, 114, 101>>   \* "Lecture"
s_Tutorial == <<84, 117, 116, 111, 114, 105, 97, 108>>   \* "Tutorial"
s_A1 == <<65, 49>>   \* "A1"
s_B2 == <<66, 50>>   \* "B2"
s_01 == <<48, 49>>   \* "01"
s_02 == <<48, 50>>   \* "02"
s_03 == <<48, 51>>   \* "03"
s_Activity == <<65, 99, 116, 105, 118, 105, 116, 121>>   \* "Activity"
s_mins == <<109, 105, 110, 115>>   \* "mins"
t_0000 == <<48, 48, 58, 48, 48>>   \* "00:00"
t_0600 == <<48, 54, 58, 48, 48>>   \* "06:00"
t_0900 == <<48, 57, 58, 48, 48>>   \* "09:00"
t_0930 == <<48, 57, 58, 51, 48>>   \* "09:30"
t_1000 == <<49, 48, 58, 48, 48>>   \* "10:00"
t_1130 == <<49, 49, 58, 51, 48>>   \* "11:30"
t_1730 == <<49, 55, 58, 51, 48>>   \* "17:30"
t_2300 == <<50, 51, 58, 48, 48>>   \* "23:00"
t_2359 == <<50, 51, 58, 53, 57>>   \* "23:59"
d_1 == <<49>>   \* "1"
d_30 == <<51, 48>>   \* "30"
d_60 == <<54, 48>>   \* "60"
d_120 == <<49, 50, 48>>   \* "120"
d_600 == <<54, 48, 48>>   \* "600"

\* ------------------------------------------------------------ TimetableOptimizer
\* self.optimization
optimization == data.optimization

\* the activity dict a reference r = <<s, a>> points to
Deref(r) == data.subjects[r[1]].activities[r[2]]
Derefs(rs) == [i \in DOMAIN rs |-> Deref(rs[i])]

time_to_minutes(time_str) ==
    LET i == ColonAt(time_str)
        hours == ParseInt(SubSeq(time_str, 1, i - 1))
        minutes == ParseInt(SubSeq(time_str, i + 1, Len(time_str)))
    IN  hours * 60 + minutes

Max0(x) == IF x > 0 THEN x ELSE 0

\* score_avoid_days without the lower() of line 34
score_avoid_days_nolower(activity) ==
    LET avoid_days == {Prefix3(Lower(optimization.avoidDays[i])) :
                          i \in DOMAIN optimization.avoidDays}
        activity_day == Prefix3(activity.day_of_week)
    IN  IF activity_day \in avoid_days THEN Zero ELSE One

\* lines 31-35 made to apply avoidDays only while the spreadClasses toggle is set
score_avoid_days_spread(activity) ==
    IF optimization.preferences.spreadClasses
    THEN LET avoid_days == {Prefix3(Lower(optimization.avoidDays[i])) :
                               i \in DOMAIN optimization.avoidDays}
             activity_day == Prefix3(Lower(activity.day_of_week))
         IN  IF activity_day \in avoid_days THEN Zero ELSE One
    ELSE One

score_avoid_days(activity) ==
    LET avoid_days == {Prefix3(Lower(optimization.avoidDays[i])) :
                          i \in DOMAIN optimization.avoidDays}
        activity_day == Prefix3(Lower(activity.day_of_week))
    IN  IF activity_day \in avoid_days THEN Zero ELSE One

\* score_time_restrictions with the duration taken as hours
score_time_restrictions_hours(activity) ==
    LET start_time == time_to_minutes(activity.start_time)
        duration == ParseInt(activity.duration) * 60
        end_time == start_time + duration
        allowed_start == optimization.timeRestrictions.start * 60
        allowed_end == optimization.timeRestrictions.end * 60
        start_deviation == Max0(allowed_start - start_time) + Max0(start_time - allowed_end)
        end_deviation == Max0(allowed_start - end_time) + Max0(end_time - allowed_end)
        total_deviation == start_deviation + end_deviation
        max_possible_deviation == 24 * 60
    IN  RSub(One, Rat(total_deviation, max_possible_deviation))

score_time_restrictions(activity) ==
    LET start_time == time_to_minutes(activity.start_time)
        duration == ParseInt(activity.duration)
        end_time == start_time + duration
        allowed_start == optimization.timeRestrictions.start * 60
        allowed_end == optimization.timeRestrictions.end * 60
        start_deviation == Max0(allowed_start - start_time) + Max0(start_time - allowed_end)
        end_deviation == Max0(allowed_start - end_time) + Max0(end_time - allowed_end)
        total_deviation == start_deviation + end_deviation
        max_possible_deviation == 24 * 60
    IN  RSub(One, Rat(total_deviation, max_possible_deviation))

\* check_clash with strict comparisons in line 65
check_clash_strict(activity1, activity2) ==
    IF activity1.day_of_week # activity2.day_of_week THEN FALSE
    ELSE LET start1 == time_to_minutes(activity1.start_time)
             end1 == start1 + ParseInt(activity1.duration)
             start2 == time_to_minutes(activity2.start_time)
             end2 == start2 + ParseInt(activity2.duration)
         IN  ~(end1 < start2 \/ end2 < start1)

check_clash(activity1, activity2) ==
    IF activity1.day_of_week # activity2.day_of_week THEN FALSE
    ELSE LET start1 == time_to_minutes(activity1.start_time)
             end1 == start1 + ParseInt(activity1.duration)
             start2 == time_to_minutes(activity2.start_time)
             end2 == start2 + ParseInt(activity2.duration)
         IN  ~(end1 <= start2 \/ end2 <= start1)

\* the nested loops of lines 87-90: clash_count after the loops
RECURSIVE ClashCountFrom(_, _, _)
ClashCountFrom(activities, i, j) ==
    IF i > Len(activities) THEN 0
    ELSE IF j > Len(activities) THEN ClashCountFrom(activities, i + 1, i + 2)
    ELSE (IF check_clash(activities[i], activities[j]) THEN 1 ELSE 0)
         + ClashCountFrom(activities, i, j + 1)

AVOID_DAYS_WEIGHT == Rat(5, 10)
TIME_RESTRICT_WEIGHT == Rat(3, 10)
CLASH_WEIGHT == Rat(2, 10)

\* lines 72-100 with ordered pairs counted as possible clashes
CombinedScore_ordered(activities) ==
    LET n == Len(activities)
        avoid_days_score ==
            RDivInt(RSum([i \in 1..n |-> score_avoid_days(activities[i])]), n)
        time_score ==
            RDivInt(RSum([i \in 1..n |-> score_time_restrictions(activities[i])]), n)
        total_possible_clashes == Rat(n * (n - 1), 1)
        clash_count == ClashCountFrom(activities, 1, 2)
        clash_score ==
            IF RGt(total_possible_clashes, Zero)
            THEN RSub(One, Rat(clash_count * total_possible_clashes.den,
                               total_possible_clashes.num))
            ELSE One
    IN  RAdd(RAdd(RMul(AVOID_DAYS_WEIGHT, avoid_days_score),
                  RMul(TIME_RESTRICT_WEIGHT, time_score)),
             RMul(CLASH_WEIGHT, clash_score))

\* lines 84-93 without the division by 2 of line 85
ClashScore_ordered(activities) ==
    LET n == Len(activities)
        total_possible_clashes == Rat(n * (n - 1), 1)
        clash_count == ClashCountFrom(activities, 1, 2)
    IN  IF RGt(total_possible_clashes, Zero)
        THEN RSub(One, Rat(clash_count * total_possible_clashes.den,
                           total_possible_clashes.num))
        ELSE One

\* lines 84-93: clash_score
ClashScore(activities) ==
    LET n == Len(activities)
        total_possible_clashes == Rat(n * (n - 1), 2)
        clash_count == ClashCountFrom(activities, 1, 2)
    IN  IF RGt(total_possible_clashes, Zero)
        THEN RSub(One, Rat(clash_count * total_possible_clashes.den,
                           total_possible_clashes.num))
        ELSE One

\* lines 72-100: the weighted score of a non-empty list
CombinedScore(activities) ==
    LET n == Len(activities)
        avoid_days_score ==
            RDivInt(RSum([i \in 1..n |-> score_avoid_days(activities[i])]), n)
        time_score ==
            RDivInt(RSum([i \in 1..n |-> score_time_restrictions(activities[i])]), n)
        clash_score == ClashScore(activities)
    IN  RAdd(RAdd(RMul(AVOID_DAYS_WEIGHT, avoid_days_score),
                  RMul(TIME_RESTRICT_WEIGHT, time_score)),
             RMul(CLASH_WEIGHT, clash_score))

\* score_activity_combination scoring the empty list 0.0
score_activity_combination_zero(activities) ==
    IF Len(activities) = 0 THEN Zero ELSE CombinedScore(activities)

score_activity_combination(activities) ==
    IF Len(activities) = 0 THEN NegInf ELSE CombinedScore(activities)

\* ------------------------------------------------ ordered dicts (insertion order)
\* a dict is a sequence of entries [key, val] with distinct keys
DictKeys(d) == [i \in DOMAIN d |-> d[i].key]
DictHas(d, k) == \E i \in DOMAIN d : d[i].key = k
DictGet(d, k) == d[CHOOSE i \in DOMAIN d : d[i].key = k].val
\* defaultdict lookup: the stored value, or the factory's value for a new key
DictGetDefault(d, k, dflt) == IF DictHas(d, k) THEN DictGet(d, k) ELSE dflt
DictSet(d, k, v) ==
    IF DictHas(d, k)
    THEN [i \in DOMAIN d |-> IF d[i].key = k THEN [key |-> k, val |-> v] ELSE d[i]]
    ELSE Append(d, [key |-> k, val |-> v])

\* line 27 with a fresh inner dict for every activity
IndexAppend_fresh(sa, subject_code, group_code, ref) ==
    DictSet(sa, subject_code, DictSet(<<>>, group_code, <<ref>>))

\* line 27: subject_activities[subject_code][group_code].append(activity)
IndexAppend(sa, subject_code, group_code, ref) ==
    CHOOSE r \in {DictSet(sa, subject_code, DictSet(groups, group_code, Append(acts, ref))) :
                      <<groups, acts>> \in
                          {<<g, DictGetDefault(g, group_code, <<>>)>> :
                              g \in {DictGetDefault(sa, subject_code, <<>>)}}} : TRUE

\* the two loops of lines 23-27, from activity a of subject entry s on
RECURSIVE IndexFrom(_, _, _)
IndexFrom(index, subject, activity) ==
    CHOOSE r \in {IF s > Len(data.subjects) THEN sa
                  ELSE IF a > Len(data.subjects[s].activities) THEN IndexFrom(sa, s + 1, 1)
                  ELSE IndexFrom(IndexAppend(sa, data.subjects[s].subject_code,
                                             data.subjects[s].activities[a].activity_group_code,
                                             <<s, a>>),
                                 s, a + 1) :
                  sa \in {index}, s \in {subject}, a \in {activity}} : TRUE

get_subject_activities == IndexFrom(<<>>, 1, 1)

\* ------------------------------------------------------------ format_output
Concat(ss) ==
    LET RECURSIVE Cat(_)
        Cat(k) == IF k = 0 THEN <<>> ELSE Cat(k - 1) \o ss[k]
    IN  Cat(Len(ss))

\* the f-string of lines 153-157
FormatLine(activity) ==
    Concat(<<activity.subject_code, <<c_space, c_bar, c_space>>,
             activity.activity_group_code, <<c_space, c_bar, c_space>>,
             s_Activity, <<c_space>>, activity.activity_code,
             <<c_space, c_bar, c_space>>,
             activity.day_of_week, <<c_space>>, activity.start_time,
             <<c_space, c_lpar>>, activity.duration, <<c_space>>, s_mins, <<c_rpar>> >>)

\* sorted(): insertion of x into the sorted list xs, after its equals (stable)
RECURSIVE InsertSorted(_, _)
InsertSorted(sorted, line) ==
    CHOOSE r \in {IF Len(xs) = 0 THEN <<x>>
                  ELSE IF StrLess(x, xs[1]) THEN <<x>> \o xs
                  ELSE <<xs[1]>> \o InsertSorted(Tail(xs), x) :
                  xs \in {sorted}, x \in {line}} : TRUE

RECURSIVE Sorted(_)
Sorted(lines) ==
    CHOOSE r \in {IF Len(xs) = 0 THEN <<>>
                  ELSE InsertSorted(Sorted(SubSeq(xs, 1, Len(xs) - 1)), xs[Len(xs)]) :
                  xs \in {lines}} : TRUE

\* format_output returning the lines in schedule order
format_output_unsorted(selected_activities) ==
    [i \in DOMAIN selected_activities |-> FormatLine(selected_activities[i])]

format_output(selected_activities) ==
    Sorted([i \in DOMAIN selected_activities |-> FormatLine(selected_activities[i])])

\* ------------------------------------------------------------ the search
SubjectFn == "try_subject_combinations"
GroupFn == "try_group_combinations"

\* A frame of try_subject_combinations holds current_idx (idx), current_selection
\* and the list created at line 142, which every try_group_combinations call
\* below it shares as subject_selection.  A frame of try_group_combinations holds
\* group_idx (idx), the position i of its for loop, and owner: the stack position
\* of the try_subject_combinations frame whose closure it is.
SubjectFrame(current_idx, current_selection) ==
    [fn |-> SubjectFn, idx |-> current_idx, pc |-> "enter", i |-> 0, owner |-> 0,
     current_selection |-> current_selection, subject_selection |-> <<>>]

GroupFrame(group_idx, owner) ==
    [fn |-> GroupFn, idx |-> group_idx, pc |-> "enter", i |-> 1, owner |-> owner,
     current_selection |-> <<>>, subject_selection |-> <<>>]

Top == stack[Len(stack)]
Pop(st) == SubSeq(st, 1, Len(st) - 1)
Running(fn) == pc = "search" /\ Len(stack) > 0 /\ Top.fn = fn

\* line 145, and lines 119-120, 141 for the frame at stack position o
subject_codes == DictKeys(subject_activities)
activity_groups(o) == DictGet(subject_activities, subject_codes[stack[o].idx + 1])
group_codes(o) == DictKeys(activity_groups(o))

\* lines 103-105, 145-146 with best_score kept from an earlier call
OptimizeStart_keepbest ==
    /\ pc = "idle"
    /\ subject_activities' = get_subject_activities
    /\ best_combination' = <<>>
    /\ best_score' = best_score
    /\ stack' = <<SubjectFrame(0, <<>>)>>
    /\ pc' = "search"
    /\ UNCHANGED <<scraper, data, scored, result, output, ret>>

\* lines 103-105, 145-146
OptimizeStart ==
    /\ pc = "idle"
    /\ subject_activities' = get_subject_activities
    /\ best_combination' = <<>>
    /\ best_score' = NegInf
    /\ stack' = <<SubjectFrame(0, <<>>)>>
    /\ pc' = "search"
    /\ UNCHANGED <<scraper, data, scored, result, output, ret>>

\* line 113 with < for >
Better_less(score, best) == RGt(best, score)

\* line 113 with >= for >
Better_orEqual(score, best) == RGeq(score, best)

\* line 113
Better(score, best) == RGt(score, best)

\* lines 111-116 without the assignment of line 115
SubjectBaseCase_scoreonly ==
    /\ Running(SubjectFn)
    /\ Top.pc = "enter"
    /\ Top.idx = Len(subject_codes)
    /\ LET score == score_activity_combination(Derefs(Top.current_selection))
       IN  /\ scored' = Append(scored, Top.current_selection)
           /\ IF Better(score, best_score)
              THEN /\ best_score' = score
                   /\ best_combination' = best_combination
              ELSE UNCHANGED <<best_score, best_combination>>
    /\ stack' = Pop(stack)
    /\ UNCHANGED <<scraper, data, pc, subject_activities, result, output, ret>>

\* lines 111-116
SubjectBaseCase ==
    /\ Running(SubjectFn)
    /\ Top.pc = "enter"
    /\ Top.idx = Len(subject_codes)
    /\ LET score == score_activity_combination(Derefs(Top.current_selection))
       IN  /\ scored' = Append(scored, Top.current_selection)
           /\ IF Better(score, best_score)
              THEN /\ best_score' = score
                   /\ best_combination' = Top.current_selection
              ELSE UNCHANGED <<best_score, best_combination>>
    /\ stack' = Pop(stack)
    /\ UNCHANGED <<scraper, data, pc, subject_activities, result, output, ret>>

\* lines 119-120, 141-142: call try_group_combinations(group_codes, 0, [])
SubjectDescend ==
    /\ Running(SubjectFn)
    /\ Top.pc = "enter"
    /\ Top.idx # Len(subject_codes)
    /\ stack' = Append([stack EXCEPT ![Len(stack)].pc = "groups",
                                     ![Len(stack)].subject_selection = <<>>],
                       GroupFrame(0, Len(stack)))
    /\ UNCHANGED <<scraper, data, pc, subject_activities, best_combination, best_score,
                   scored, result, output, ret>>

\* the call of line 142 has returned: try_subject_combinations returns
SubjectReturn ==
    /\ Running(SubjectFn)
    /\ Top.pc = "groups"
    /\ stack' = Pop(stack)
    /\ UNCHANGED <<scraper, data, pc, subject_activities, best_combination, best_score,
                   scored, result, output, ret>>

\* lines 124-127: all groups of the subject are assigned
GroupComplete ==
    /\ Running(GroupFn)
    /\ Top.pc = "enter"
    /\ Top.idx = Len(group_codes(Top.owner))
    /\ LET o == stack[Top.owner]
           combined_selection == o.current_selection \o o.subject_selection
       IN  stack' = Append([stack EXCEPT ![Len(stack)].pc = "next_subject"],
                           SubjectFrame(o.idx + 1, combined_selection))
    /\ UNCHANGED <<scraper, data, pc, subject_activities, best_combination, best_score,
                   scored, result, output, ret>>

\* line 128
GroupCompleteReturn ==
    /\ Running(GroupFn)
    /\ Top.pc = "next_subject"
    /\ stack' = Pop(stack)
    /\ UNCHANGED <<scraper, data, pc, subject_activities, best_combination, best_score,
                   scored, result, output, ret>>

\* lines 131-135 with the last candidate of a group left out of the loop
Candidates_droplast(f) ==
    LET all == DictGet(activity_groups(f.owner), group_codes(f.owner)[f.idx + 1])
    IN  IF Len(all) > 1 THEN SubSeq(all, 1, Len(all) - 1) ELSE all

\* lines 131-132: the candidates of the frame's group
Candidates(f) == DictGet(activity_groups(f.owner), group_codes(f.owner)[f.idx + 1])

\* lines 135-137 with the recursive call of line 137 made on current_idx
GroupAppend_sameindex ==
    /\ Running(GroupFn)
    /\ Top.pc = "enter"
    /\ Top.idx # Len(group_codes(Top.owner))
    /\ Top.i <= Len(Candidates(Top))
    /\ stack' = Append([stack EXCEPT
                            ![Len(stack)].pc = "called",
                            ![Top.owner].subject_selection =
                                Append(@, Candidates(Top)[Top.i])],
                       GroupFrame(Top.idx, Top.owner))
    /\ UNCHANGED <<scraper, data, pc, subject_activities, best_combination, best_score,
                   scored, result, output, ret>>

\* lines 135-137: the next candidate is appended and the next group is entered
GroupAppend ==
    /\ Running(GroupFn)
    /\ Top.pc = "enter"
    /\ Top.idx # Len(group_codes(Top.owner))
    /\ Top.i <= Len(Candidates(Top))
    /\ stack' = Append([stack EXCEPT
                            ![Len(stack)].pc = "called",
                            ![Top.owner].subject_selection =
                                Append(@, Candidates(Top)[Top.i])],
                       GroupFrame(Top.idx + 1, Top.owner))
    /\ UNCHANGED <<scraper, data, pc, subject_activities, best_combination, best_score,
                   scored, result, output, ret>>

\* line 138: subject_selection.pop(), and on to the next candidate
GroupBacktrack ==
    /\ Running(GroupFn)
    /\ Top.pc = "called"
    /\ stack' = [stack EXCEPT
                    ![Len(stack)].pc = "enter",
                    ![Len(stack)].i = @ + 1,
                    ![Top.owner].subject_selection = SubSeq(@, 1, Len(@) - 1)]
    /\ UNCHANGED <<scraper, data, pc, subject_activities, best_combination, best_score,
                   scored, result, output, ret>>

\* line 135 made to pass over a group without candidates: the next group is
\* entered with nothing appended, and the call returns when that call has returned
GroupLoopEnd_skip ==
    /\ Running(GroupFn)
    /\ Top.pc = "enter"
    /\ Top.idx # Len(group_codes(Top.owner))
    /\ Top.i > Len(Candidates(Top))
    /\ IF Len(Candidates(Top)) = 0 /\ Top.i = 1
       THEN stack' = Append([stack EXCEPT ![Len(stack)].i = 2],
                            GroupFrame(Top.idx + 1, Top.owner))
       ELSE stack' = Pop(stack)
    /\ UNCHANGED <<scraper, data, pc, subject_activities, best_combination, best_score,
                   scored, result, output, ret>>

\* the for loop of line 135 is exhausted: try_group_combinations returns
GroupLoopEnd ==
    /\ Running(GroupFn)
    /\ Top.pc = "enter"
    /\ Top.idx # Len(group_codes(Top.owner))
    /\ Top.i > Len(Candidates(Top))
    /\ stack' = Pop(stack)
    /\ UNCHANGED <<scraper, data, pc, subject_activities, best_combination, best_score,
                   scored, result, output, ret>>

\* line 148
OptimizeReturn ==
    /\ pc = "search"
    /\ stack = <<>>
    /\ result' = best_combination
    /\ pc' = "returned"
    /\ UNCHANGED <<scraper, data, subject_activities, stack, best_combination, best_score,
                   scored, output, ret>>

\* lines 161-164: the module's optimize_timetable renders the selection
FormatOutput ==
    /\ pc = "returned"
    /\ output' = format_output(Derefs(result))
    /\ pc' = "done"
    /\ UNCHANGED <<scraper, data, subject_activities, stack, best_combination, best_score,
                   scored, result, ret>>


\* ------------------------------------------------------------ inputs
Act(g, c, d, t, m) ==
    [activity_group_code |-> g, activity_code |-> c, day_of_week |-> d,
     start_time |-> t, duration |-> m]

\* the candidate offerings catalogs are built from
Pool == <<Act(s_Lecture, s_01, s_Mon, t_0900, d_60),
          Act(s_Tutorial, s_01, s_Tue, t_1000, d_60),
          Act(s_Lecture, s_02, s_Mon, t_0930, d_60),
          Act(s_Tutorial, s_02, s_Tue, t_1130, d_30),
          Act(s_Tutorial, s_03, s_Mon, t_1730, d_120)>>

WithSubject(a, code) ==
    [subject_code |-> code, activity_group_code |-> a.activity_group_code,
     activity_code |-> a.activity_code, day_of_week |-> a.day_of_week,
     start_time |-> a.start_time, duration |-> a.duration]

\* the lists of k distinct pool positions, in pool order or in reverse pool order
PickLists(k) ==
    {p \in [1..k -> DOMAIN Pool] :
        \/ \A i, j \in 1..k : i < j => p[i] < p[j]
        \/ \A i, j \in 1..k : i < j => p[i] > p[j]}

\* the ways to cut a list of len activities into n consecutive subject entries
Cuts(n, len) ==
    {c \in [0..n -> 0..len] :
        c[0] = 0 /\ c[n] = len /\ \A j \in 1..n : c[j - 1] <= c[j]}

\* the subject codes of n entries: all one code (the entries merge in the
\* index) or two codes in turn
CodePatterns(n) ==
    {[j \in 1..n |-> s_A1], [j \in 1..n |-> IF j % 2 = 1 THEN s_A1 ELSE s_B2]}

\* data['subjects']: entry j has code codes[j] and, as its activities dict in
\* values() order, the picked offerings c[j-1]+1 .. c[j]
Catalog(n, p, c, codes) ==
    [j \in 1..n |->
        [subject_code |-> codes[j],
         activities |-> [i \in 1..(c[j] - c[j - 1]) |->
                            WithSubject(Pool[p[c[j - 1] + i]], codes[j])]]]

Catalogs ==
    UNION {UNION {{Catalog(n, p, c, codes) : c \in Cuts(n, Len(p)), codes \in CodePatterns(n)} :
                     p \in UNION {PickLists(k) : k \in 0..MaxActivities}} :
              n \in 0..MaxSubjects}

\* data['optimization']['preferences']
Toggles(mc, cl, cc, ab, sc) ==
    [minimizeClashes |-> mc, clashLectures |-> cl, crampClasses |-> cc,
     allocateBreaks |-> ab, spreadClasses |-> sc]

\* the toggles of the sample input
SamplePreferences == Toggles(TRUE, FALSE, FALSE, TRUE, TRUE)

\* toggle values a later call is given
PreferenceChoices ==
    {SamplePreferences, Toggles(FALSE, TRUE, TRUE, FALSE, FALSE),
     Toggles(FALSE, FALSE, FALSE, TRUE, TRUE)}

Opt(lo, hi, avoid) ==
    [timeRestrictions |-> [start |-> lo, end |-> hi], avoidDays |-> avoid,
     preferences |-> SamplePreferences]

Optimizations ==
    {Opt(6, 18, <<s_tue, s_thu>>), Opt(6, 18, <<>>), Opt(10, 17, <<s_Monday>>)}

NoCall == [fn |-> "none", args |-> <<>>, value |-> Zero]

\* no UnitRequirementsScraper has been constructed
NoScraper == [pc |-> "none"]

\* the state after TimetableOptimizer(data) is constructed (lines 5-8)
Init ==
    /\ data \in {[subjects |-> c, optimization |-> o] : c \in Catalogs, o \in Optimizations}
    /\ pc = "idle"
    /\ subject_activities = <<>>
    /\ stack = <<>>
    /\ best_combination = <<>>
    /\ best_score = NegInf
    /\ scored = <<>>
    /\ result = <<>>
    /\ output = <<>>
    /\ ret = NoCall
    /\ scraper = NoScraper

Next ==
    \/ OptimizeStart
    \/ SubjectBaseCase
    \/ SubjectDescend
    \/ SubjectReturn
    \/ GroupComplete
    \/ GroupCompleteReturn
    \/ GroupAppend
    \/ GroupBacktrack
    \/ GroupLoopEnd
    \/ OptimizeReturn
    \/ FormatOutput

Spec == Init /\ [][Next]_vars

\* lines 161-164 a second time: after the module's optimize_timetable has
\* returned, it is called again on the same catalog, time window and avoidDays,
\* with the toggles the caller chooses; ret keeps what the first call was given
\* and what it returned
SecondCall ==
    /\ pc = "done"
    /\ ret = NoCall
    /\ \E preferences \in PreferenceChoices :
           data' = [data EXCEPT !.optimization.preferences = preferences]
    /\ ret' = [fn |-> "optimize_timetable", args |-> <<data>>,
               value |-> [schedule |-> result, score |-> best_score, lines |-> output]]
    /\ pc' = "idle"
    /\ scored' = <<>>
    /\ result' = <<>>
    /\ output' = <<>>
    /\ UNCHANGED <<scraper, subject_activities, stack, best_combination, best_score>>

SpecTwice == Init /\ [][Next \/ SecondCall]_vars

\* the interpreter keeps executing: a call that can take a step takes one
SpecLive == Spec /\ WF_vars(Next)

\* the index sa with the candidate list of group j of subject i emptied
EmptyGroup(sa, i, j) == [sa EXCEPT ![i].val[j].val = <<>>]

\* the indexes a get_subject_activities that leaves one group without
\* candidates returns (the method of lines 15-29 itself never does)
HandedIndexes ==
    {EmptyGroup(get_subject_activities, i, j) :
        <<i, j>> \in {ij \in (1..MaxActivities) \X (1..MaxActivities) :
                         /\ ij[1] \in DOMAIN get_subject_activities
                         /\ ij[2] \in DOMAIN get_subject_activities[ij[1]].val}}

\* lines 103-105, 145-146 with line 103 handed such an index
OptimizeStartHanded ==
    /\ pc = "idle"
    /\ subject_activities' \in HandedIndexes
    /\ best_combination' = <<>>
    /\ best_score' = NegInf
    /\ stack' = <<SubjectFrame(0, <<>>)>>
    /\ pc' = "search"
    /\ UNCHANGED <<scraper, data, scored, result, output, ret>>

SpecHanded == Init /\ [][Next \/ OptimizeStartHanded]_vars


\* ------------------------------------------------ UnitRequirementsScraper
\* A row of the input file is one of: a row with a URL whose page is fetched
\* and parsed ("ok"), a row whose URL is empty or holds no 'http' ("no_url"),
\* a row whose page cannot be fetched ("unreachable"). Rows are numbered from 1
\* after the header line; last_processed_index counts rows, as line 193 does.
RowKinds == {"ok", "no_url", "unreachable"}

InputFiles == UNION {[1..n -> RowKinds] : n \in 0..MaxRows}

\* lines 78, 81: the state load_state returns when there is no state file
DefaultState == [last_processed_index |-> 0, failed_units |-> <<>>]

\* no optimizer runs while the scraper does; the files are as before the first
\* batch: the input file, no state file, an output file holding its header
InitScraper ==
    /\ data = [subjects |-> <<>>, optimization |-> Opt(6, 18, <<>>)]
    /\ pc = "scraping"
    /\ subject_activities = <<>>
    /\ stack = <<>>
    /\ best_combination = <<>>
    /\ best_score = NegInf
    /\ scored = <<>>
    /\ result = <<>>
    /\ output = <<>>
    /\ ret = NoCall
    /\ scraper \in {[pc |-> "idle", rows |-> rows, state |-> DefaultState,
                     outfile |-> <<>>, batch |-> 0, batch_size |-> 0,
                     start_index |-> 0, processed_count |-> 0, pos |-> 1,
                     failed_units |-> <<>>, attempted |-> {}] :
                       rows \in InputFiles}

OptimizerIdle ==
    UNCHANGED <<data, pc, subject_activities, stack, best_combination, best_score,
                scored, result, output, ret>>

\* main(), lines 255-257, up to the loop of line 197: a scraper is constructed,
\* load_state reads the state file (line 40), and process_units skips the
\* header and start_index rows (lines 180-196)
ProcessUnitsStart ==
    /\ scraper.pc = "idle"
    /\ scraper.batch < MaxBatches
    /\ \E batch_size \in 1..MaxBatchSize :
           scraper' = [scraper EXCEPT
                          !.pc = "loop",
                          !.batch = @ + 1,
                          !.batch_size = batch_size,
                          !.failed_units = scraper.state.failed_units,
                          !.start_index = scraper.state.last_processed_index,
                          !.processed_count = 0,
                          !.pos = scraper.state.last_processed_index + 1]
    /\ OptimizerIdle

\* the loop of line 197 yields a row and line 198 does not break
InLoop ==
    /\ scraper.pc = "loop"
    /\ scraper.pos <= Len(scraper.rows)
    /\ scraper.processed_count < scraper.batch_size

\* lines 208-210: continue, processed_count as it was
RowSkipped ==
    /\ InLoop
    /\ scraper.rows[scraper.pos] = "no_url"
    /\ scraper' = [scraper EXCEPT !.pos = @ + 1,
                                  !.attempted = @ \cup {scraper.pos}]
    /\ OptimizerIdle

\* lines 212-216: the unit is appended to failed_units, continue
RowFetchFailed ==
    /\ InLoop
    /\ scraper.rows[scraper.pos] = "unreachable"
    /\ scraper' = [scraper EXCEPT !.pos = @ + 1,
                                  !.attempted = @ \cup {scraper.pos},
                                  !.failed_units = Append(@, scraper.pos)]
    /\ OptimizerIdle

\* lines 218-234: the row is appended to the output file, processed_count += 1
RowWritten ==
    /\ InLoop
    /\ scraper.rows[scraper.pos] = "ok"
    /\ scraper' = [scraper EXCEPT
                      !.pos = @ + 1,
                      !.attempted = @ \cup {scraper.pos},
                      !.outfile = Append(@, [row |-> scraper.pos, batch |-> scraper.batch]),
                      !.processed_count = @ + 1]
    /\ OptimizerIdle

\* lines 83-99: the state file after save_state
save_state(last_index, failed_units) ==
    [last_processed_index |-> last_index, failed_units |-> failed_units]

\* the loop ends (the input is exhausted, or line 199 breaks on the row just
\* read) and line 245 saves the state
ProcessUnitsEnd ==
    /\ scraper.pc = "loop"
    /\ \/ scraper.pos > Len(scraper.rows)
       \/ scraper.processed_count >= scraper.batch_size
    /\ scraper' = [scraper EXCEPT
                      !.pc = "idle",
                      !.state = save_state(scraper.start_index + scraper.processed_count,
                                           scraper.failed_units)]
    /\ OptimizerIdle

NextScraper ==
    \/ ProcessUnitsStart
    \/ RowSkipped
    \/ RowFetchFailed
    \/ RowWritten
    \/ ProcessUnitsEnd

SpecScraper == InitScraper /\ [][NextScraper]_vars


\* ------------------------------------------------- the scoring functions alone
\* Each specification below constructs a TimetableOptimizer over an empty
\* catalog and calls one scoring method on arguments drawn from a bounded set.
Idle ==
    /\ pc = "scoring"
    /\ subject_activities = <<>>
    /\ stack = <<>>
    /\ best_combination = <<>>
    /\ best_score = NegInf
    /\ scored = <<>>
    /\ result = <<>>
    /\ output = <<>>
    /\ ret = NoCall
    /\ scraper = NoScraper

\* one call per constructed object: the methods change no state
Returns(fn, args, value) ==
    /\ pc = "scoring"
    /\ ret = NoCall
    /\ ret' = [fn |-> fn, args |-> args, value |-> value]
    /\ UNCHANGED <<scraper, data, pc, subject_activities, stack, best_combination, best_score,
                   scored, result, output>>

Days == {s_Mon, s_Tue, s_Wed, s_Thu, s_Fri, s_Sat, s_Sun}
StartTimes == {t_0000, t_0600, t_0900, t_0930, t_1000, t_1130, t_1730, t_2300, t_2359}
Durations == {d_1, d_30, d_60, d_120, d_600}
Hours == 0..24

\* spellings of weekdays a configuration may list
AvoidSpellings ==
    {s_tue, s_thu, s_Monday, s_TUESDAY, s_wednesday, s_Mon, s_Fri, s_Sun}

AvoidLists == UNION {[1..k -> AvoidSpellings] : k \in 0..MaxAvoid}

\* score_time_restrictions
InitTime ==
    /\ data \in {[subjects |-> <<>>, optimization |-> Opt(lo, hi, <<>>)] :
                    lo \in Hours, hi \in Hours}
    /\ Idle

CallScoreTimeRestrictions ==
    \E t \in StartTimes, m \in Durations :
        LET activity == WithSubject(Act(s_Lecture, s_01, s_Mon, t, m), s_A1)
        IN  Returns("score_time_restrictions", <<activity>>,
                    score_time_restrictions(activity))

SpecTime == InitTime /\ [][CallScoreTimeRestrictions]_vars

\* score_avoid_days
InitAvoid ==
    /\ data \in {[subjects |-> <<>>, optimization |-> Opt(6, 18, avoid)] :
                    avoid \in AvoidLists}
    /\ Idle

CallScoreAvoidDays ==
    \E d \in Days :
        LET activity == WithSubject(Act(s_Lecture, s_01, d, t_0900, d_60), s_A1)
        IN  Returns("score_avoid_days", <<activity>>, score_avoid_days(activity))

SpecAvoid == InitAvoid /\ [][CallScoreAvoidDays]_vars

\* check_clash
InitClash ==
    /\ data = [subjects |-> <<>>, optimization |-> Opt(6, 18, <<s_tue, s_thu>>)]
    /\ Idle

ClashDays == {s_Mon, s_Tue, s_Wed}
ClashTimes == {t_0900, t_0930, t_1000, t_1130, t_2300, t_2359}
ClashDurations == {d_1, d_30, d_60, d_120}

CallCheckClash ==
    \E d1 \in ClashDays, t1 \in ClashTimes, m1 \in ClashDurations,
       d2 \in ClashDays, t2 \in ClashTimes, m2 \in ClashDurations :
        LET activity1 == WithSubject(Act(s_Lecture, s_01, d1, t1, m1), s_A1)
            activity2 == WithSubject(Act(s_Tutorial, s_01, d2, t2, m2), s_A1)
        IN  Returns("check_clash", <<activity1, activity2>>,
                    check_clash(activity1, activity2))

SpecClash == InitClash /\ [][CallCheckClash]_vars

\* score_activity_combination
InitCombo ==
    /\ data \in {[subjects |-> <<>>, optimization |-> o] : o \in Optimizations}
    /\ Idle

ComboLists == UNION {[1..k -> DOMAIN Pool] : k \in 0..MaxList}

\* the call also records clash_score, the local of lines 84-93, which the
\* early return of line 70 leaves unset for the empty list
CallScoreActivityCombination ==
    \E p \in ComboLists :
        LET activities == [i \in DOMAIN p |-> WithSubject(Pool[p[i]], s_A1)]
        IN  /\ pc = "scoring"
            /\ ret = NoCall
            /\ ret' = [fn |-> "score_activity_combination", args |-> <<activities>>,
                       value |-> score_activity_combination(activities),
                       clash_score |-> IF Len(activities) = 0 THEN "unset"
                                       ELSE ClashScore(activities)]
            /\ UNCHANGED <<scraper, data, pc, subject_activities, stack, best_combination,
                           best_score, scored, result, output>>

SpecCombo == InitCombo /\ [][CallScoreActivityCombination]_vars


\* format_output
FormatPool ==
    {WithSubject(Pool[i], code) : i \in DOMAIN Pool, code \in {s_A1, s_B2}}

\* the lists of at most MaxList distinct activities
FormatLists ==
    UNION {{l \in [1..k -> FormatPool] : \A i, j \in 1..k : i # j => l[i] # l[j]} :
              k \in 0..MaxList}

CallFormatOutput ==
    \E selected_activities \in FormatLists :
        Returns("format_output", <<selected_activities>>,
                format_output(selected_activities))

SpecFormat == InitClash /\ [][CallFormatOutput]_vars

\* ------------------------------------------------- what the inputs denote
\* the weekday (1 = Monday .. 7 = Sunday) a spelling names
WeekdayTable ==
    {<<s_Mon, 1>>, <<s_Tue, 2>>, <<s_Wed, 3>>, <<s_Thu, 4>>, <<s_Fri, 5>>,
     <<s_Sat, 6>>, <<s_Sun, 7>>, <<s_tue, 2>>, <<s_thu, 4>>, <<s_Monday, 1>>,
     <<s_TUESDAY, 2>>, <<s_wednesday, 3>>}
Weekday(s) == CHOOSE w \in 1..7 : <<s, w>> \in WeekdayTable

\* the minute of the day a clock string names
ClockTable ==
    {<<t_0000, 0>>, <<t_0600, 360>>, <<t_0900, 540>>, <<t_0930, 570>>,
     <<t_1000, 600>>, <<t_1130, 690>>, <<t_1730, 1050>>, <<t_2300, 1380>>,
     <<t_2359, 1439>>}
StartMinute(a) == CHOOSE m \in 0..1439 : <<a.start_time, m>> \in ClockTable

\* the number of minutes a duration string names
DurationTable == {<<d_1, 1>>, <<d_30, 30>>, <<d_60, 60>>, <<d_120, 120>>, <<d_600, 600>>}
Minutes(a) == CHOOSE m \in 1..600 : <<a.duration, m>> \in DurationTable
EndMinute(a) == StartMinute(a) + Minutes(a)

RECURSIVE SumInts(_)
SumInts(xs) == IF Len(xs) = 0 THEN 0 ELSE xs[1] + SumInts(Tail(xs))

\* ------------------------------------------------------------ claims C6 - C10
Called(fn) == ret.fn = fn

\* the weighted mean of C6 for a non-empty list, over the common denominator
\* 14400 * n * pairs
WeightedMean(activities) ==
    LET n == Len(activities)
        pairs == (n * (n - 1)) \div 2
        clashing == Cardinality({ij \in (1..n) \X (1..n) :
                        ij[1] < ij[2] /\ check_clash(activities[ij[1]], activities[ij[2]])})
        p == IF pairs = 0 THEN 1 ELSE pairs
        free == IF pairs = 0 THEN 1 ELSE pairs - clashing
        days == SumInts([i \in 1..n |-> score_avoid_days(activities[i]).num])
        times == SumInts([i \in 1..n |->
                    LET t == score_time_restrictions(activities[i])
                    IN  t.num * (1440 \div t.den)])
    IN  Rat(7200 * days * p + 3 * times * p + 2880 * n * free, 14400 * n * p)

\* C6: score_activity_combination returns 0.5 * mean day-avoidance score
\* + 0.3 * mean time-window score + 0.2 * clash score for a non-empty list, and
\* negative infinity for the empty list.
C6_CombinedScore ==
    Called("score_activity_combination") =>
        LET activities == ret.args[1]
        IN  ret.value = IF Len(activities) = 0 THEN NegInf ELSE WeightedMean(activities)

C6_Witness ==
    /\ Called("score_activity_combination")
    /\ Len(ret.args[1]) = 3
    /\ check_clash(ret.args[1][1], ret.args[1][2])
    /\ ~check_clash(ret.args[1][1], ret.args[1][3])
    /\ score_avoid_days(ret.args[1][3]) = Zero
    /\ score_time_restrictions(ret.args[1][1]) # One

\* C7: score_time_restrictions returns a value in [0.0, 1.0] for every activity
\* starting between 00:00 and 23:59 with a positive duration and every window with
\* hours between 0 and 24.
C7_TimeScoreInUnitRange ==
    Called("score_time_restrictions") =>
        /\ RGeq(ret.value, Zero)
        /\ RGeq(One, ret.value)

\* C8: an activity whose start minute and end minute both lie within the configured
\* window scores exactly 1.0.
C8_InsideWindowScoresOne ==
    Called("score_time_restrictions") =>
        LET a == ret.args[1]
            lo == optimization.timeRestrictions.start * 60
            hi == optimization.timeRestrictions.end * 60
        IN  (/\ lo <= StartMinute(a) /\ StartMinute(a) <= hi
             /\ lo <= EndMinute(a) /\ EndMinute(a) <= hi)
            => ret.value = One

C8_Witness ==
    /\ Called("score_time_restrictions")
    /\ optimization.timeRestrictions.start = 9
    /\ optimization.timeRestrictions.end = 11
    /\ StartMinute(ret.args[1]) = 570
    /\ EndMinute(ret.args[1]) = 630
    /\ ret.value = One

\* C9: score_avoid_days returns 0.0 or 1.0, and 1.0 exactly when the activity's
\* weekday is not one of the weekdays avoidDays lists.
C9_AvoidDaysScore ==
    Called("score_avoid_days") =>
        LET avoided == {Weekday(optimization.avoidDays[i]) :
                           i \in DOMAIN optimization.avoidDays}
        IN  /\ ret.value \in {Zero, One}
            /\ ret.value = One <=> Weekday(ret.args[1].day_of_week) \notin avoided

C9_Witness ==
    /\ Called("score_avoid_days")
    /\ optimization.avoidDays = <<s_Monday, s_tue>>
    /\ ret.args[1].day_of_week = s_Tue
    /\ ret.value = Zero

Larger(x, y) == IF x > y THEN x ELSE y
Smaller(x, y) == IF x < y THEN x ELSE y

\* the half-open minute intervals [start, start + duration) share a minute
Overlap(a, b) ==
    Larger(StartMinute(a), StartMinute(b)) < Smaller(EndMinute(a), EndMinute(b))

\* C10: check_clash is true exactly when the two activities are on the same weekday
\* and their half-open intervals [start, start + duration) overlap (so it is false
\* across weekdays and for back-to-back activities), whatever the argument order.
C10_ClashIffOverlap ==
    Called("check_clash") =>
        LET a == ret.args[1]
            b == ret.args[2]
        IN  /\ ret.value = (Weekday(a.day_of_week) = Weekday(b.day_of_week) /\ Overlap(a, b))
            /\ check_clash(b, a) = ret.value

C10_Witness ==
    /\ Called("check_clash")
    /\ ret.args[1].day_of_week = ret.args[2].day_of_week
    /\ EndMinute(ret.args[1]) = StartMinute(ret.args[2])
    /\ ret.value = FALSE


\* ------------------------------------------------- what the catalog denotes
\* every activity of the catalog, as a reference
AllRefs ==
    UNION {{<<s, a>> : a \in DOMAIN data.subjects[s].activities} : s \in DOMAIN data.subjects}

\* the (subject code, activity group code) pair an activity belongs to
PairOf(r) == <<data.subjects[r[1]].subject_code, Deref(r).activity_group_code>>
Pairs == {PairOf(r) : r \in AllRefs}
CandidatesOf(pair) == {r \in AllRefs : PairOf(r) = pair}

\* the schedules: one candidate for each pair
RECURSIVE ChoicesOver(_)
ChoicesOver(ps) ==
    IF ps = {} THEN {[pair \in {} |-> <<>>]}
    ELSE LET p == CHOOSE p \in ps : TRUE
         IN  {(p :> r) @@ f : r \in CandidatesOf(p), f \in ChoicesOver(ps \ {p})}
Choices == ChoicesOver(Pairs)

\* a selection (list of references) read as a choice per pair
Chosen(sel, pair) == {i \in DOMAIN sel : PairOf(sel[i]) = pair}
IsSchedule(sel) ==
    /\ Len(sel) = Cardinality(Pairs)
    /\ \A pair \in Pairs : Cardinality(Chosen(sel, pair)) = 1
ChoiceOf(sel) == [pair \in Pairs |-> sel[CHOOSE i \in DOMAIN sel : PairOf(sel[i]) = pair]]

RECURSIVE ListOfSet(_)
ListOfSet(S) ==
    IF S = {} THEN <<>>
    ELSE LET x == CHOOSE x \in S : TRUE IN <<x>> \o ListOfSet(S \ {x})

\* the activities of a choice, as a list in some order
ActivitiesOf(f) == LET ps == ListOfSet(Pairs) IN [i \in DOMAIN ps |-> Deref(f[ps[i]])]

ScoreOf(sel) == score_activity_combination(Derefs(sel))

RECURSIVE Product(_)
Product(ns) == IF Len(ns) = 0 THEN 1 ELSE ns[1] * Product(Tail(ns))

\* references in catalog order: by subject entry, then by position in the entry
RefBefore(r, q) == r[1] < q[1] \/ (r[1] = q[1] /\ r[2] < q[2])

\* a set of references as a list in catalog order
RECURSIVE InOrder(_)
InOrder(S) ==
    IF S = {} THEN <<>>
    ELSE LET x == CHOOSE x \in S : \A y \in S : y = x \/ RefBefore(x, y)
         IN  <<x>> \o InOrder(S \ {x})

\* the first activity of a pair, and the pairs in order of first appearance:
\* subjects by their first entry holding an activity, groups within a subject
FirstOf(pair) == InOrder(CandidatesOf(pair))[1]
FirstOfSubject(code) ==
    InOrder({r \in AllRefs : data.subjects[r[1]].subject_code = code})[1]
PairBefore(p, q) ==
    IF p[1] # q[1] THEN RefBefore(FirstOfSubject(p[1]), FirstOfSubject(q[1]))
    ELSE RefBefore(FirstOf(p), FirstOf(q))

RECURSIVE PairsInOrder(_)
PairsInOrder(S) ==
    IF S = {} THEN <<>>
    ELSE LET x == CHOOSE x \in S : \A y \in S : y = x \/ PairBefore(x, y)
         IN  <<x>> \o PairsInOrder(S \ {x})

\* the schedules over the pairs ps in enumeration order, the last pair varying fastest
RECURSIVE Enumerate(_)
Enumerate(ps) ==
    IF Len(ps) = 0 THEN << <<>> >>
    ELSE LET cands == InOrder(CandidatesOf(ps[1]))
             rest == Enumerate(Tail(ps))
             RECURSIVE Row(_, _)
             Row(c, k) == IF k > Len(rest) THEN <<>>
                          ELSE << <<cands[c]>> \o rest[k] >> \o Row(c, k + 1)
             RECURSIVE Rows(_)
             Rows(c) == IF c > Len(cands) THEN <<>> ELSE Row(c, 1) \o Rows(c + 1)
         IN  Rows(1)

Enumeration == Enumerate(PairsInOrder(Pairs))

IsPrefix(xs, ys) == Len(xs) <= Len(ys) /\ xs = SubSeq(ys, 1, Len(xs))

\* the first selection of xs no selection of xs scores higher than
FirstBest(xs) ==
    LET scores == [i \in DOMAIN xs |-> ScoreOf(xs[i])]
    IN  xs[CHOOSE i \in DOMAIN xs :
              /\ \A j \in DOMAIN xs : RGeq(scores[i], scores[j])
              /\ \A j \in 1..(i - 1) : scores[j] # scores[i]]

\* TimetableOptimizer.optimize_timetable has returned
Finished == pc \in {"returned", "done"}
Returned == pc = "returned"

\* a call of try_subject_combinations has just returned; best_combination,
\* best_score and the scored selections change nowhere else
AfterSubjectCall ==
    pc = "search" /\ (stack = <<>> \/ Top.pc = "next_subject")
HasActivity == AllRefs # {}

\* ------------------------------------------------------------ claims C1 - C5
\* C1: for a catalog with at least one activity, optimize_timetable returns a
\* schedule whose combined score is at least the combined score of every schedule
\* formed by picking one candidate from each group of each subject.
C1_ReturnsMaximum ==
    (Returned /\ HasActivity) =>
        LET score == ScoreOf(result)
        IN  \A f \in Choices : RGeq(score, score_activity_combination(ActivitiesOf(f)))

C1_Witness ==
    /\ Finished
    /\ Cardinality(Choices) >= 3
    /\ \E f \in Choices :
           RGt(ScoreOf(result), score_activity_combination(ActivitiesOf(f)))
    /\ result # scored[1]

\* C2: the returned schedule holds exactly one activity for each (subject code,
\* activity group code) pair of the catalog: its length is the number of pairs and
\* no two of its activities belong to the same pair.
C2_OnePerGroup ==
    Returned =>
        /\ Len(result) = Cardinality(Pairs)
        /\ \A pair \in Pairs : Cardinality(Chosen(result, pair)) = 1
        /\ \A i, j \in DOMAIN result : i # j => PairOf(result[i]) # PairOf(result[j])

C2_Witness ==
    /\ Finished
    /\ Len(data.subjects) = 2
    /\ data.subjects[1].subject_code = data.subjects[2].subject_code
    /\ Cardinality(Pairs) = 2
    /\ Cardinality(AllRefs) = 4
    /\ Len(result) = 2

\* C3: among the complete schedules of highest combined score the one enumerated
\* first is returned, the enumeration walking subjects in catalog order, groups in
\* order of first appearance and candidates in listed order, the last group of the
\* last subject varying fastest; a later schedule of equal score never replaces the
\* recorded best.
C3_FirstEnumeratedWins ==
    (HasActivity /\ (AfterSubjectCall \/ Returned)) =>
        LET enumeration == Enumeration
        IN  /\ IsPrefix(scored, enumeration)
            /\ scored # <<>> => best_combination = FirstBest(scored)
            /\ Returned => scored = enumeration /\ result = FirstBest(scored)

C3_Witness ==
    /\ Finished
    /\ \E i, j \in DOMAIN scored :
          /\ i < j
          /\ result = scored[i]
          /\ scored[i] # scored[j]
          /\ ScoreOf(scored[j]) = ScoreOf(result)
    /\ \E k \in DOMAIN scored : ScoreOf(scored[k]) # ScoreOf(result)

\* C4: the number of complete schedules that reach the scoring step is the product,
\* over all subjects and their groups, of the group's candidate count, and every
\* combination of one candidate per group is scored exactly once.
C4_EveryCombinationOnce ==
    Returned =>
        LET ps == ListOfSet(Pairs)
        IN  /\ Len(scored) = Product([i \in DOMAIN ps |-> Cardinality(CandidatesOf(ps[i]))])
            /\ \A i \in DOMAIN scored : IsSchedule(scored[i])
            /\ LET choices == [i \in DOMAIN scored |-> ChoiceOf(scored[i])]
               IN  \A f \in Choices :
                       Cardinality({i \in DOMAIN scored : choices[i] = f}) = 1

C4_Witness ==
    /\ Finished
    /\ Cardinality(Pairs) = 2
    /\ \A pair \in Pairs : Cardinality(CandidatesOf(pair)) = 2
    /\ Len(scored) = 4

\* C5: with no candidate activity at all (no subjects, or only subjects without
\* activities) optimize_timetable finishes without an error, the best schedule is
\* empty with best score negative infinity, and format_output of it is empty.
C5_EmptyCatalog ==
    ~HasActivity =>
        /\ pc = "done" \/ ENABLED Next
        /\ Finished => result = <<>> /\ best_combination = <<>> /\ best_score = NegInf
        /\ pc = "done" => output = <<>>

C5_Witness ==
    /\ ~HasActivity
    /\ Len(data.subjects) = 2
    /\ scored = << <<>> >>
    /\ pc = "done"
    /\ output = <<>>


\* ------------------------------------------------------------ claims C11 - C18
\* the unordered pairs of positions of a list that check_clash reports
ClashingPairs(activities) ==
    {ij \in (DOMAIN activities) \X (DOMAIN activities) :
        ij[1] < ij[2] /\ check_clash(activities[ij[1]], activities[ij[2]])}

\* C11: the clash score of a schedule of fewer than two activities is 1.0; for
\* n >= 2 activities it is 1 - (number of unordered pairs check_clash reports) /
\* (n(n-1)/2), so 0.0 when every pair clashes and 1.0 when none does.
C11_ClashScore ==
    Called("score_activity_combination") =>
        LET activities == ret.args[1]
            n == Len(activities)
            pairs == (n * (n - 1)) \div 2
            clashing == Cardinality(ClashingPairs(activities))
        IN  /\ n = 1 => ret.clash_score = One
            /\ n >= 2 => /\ ret.clash_score = Rat(pairs - clashing, pairs)
                         /\ clashing = pairs => ret.clash_score = Zero
                         /\ clashing = 0 => ret.clash_score = One
            /\ n < 2 => ClashScore(activities) = One

C11_Witness ==
    /\ Called("score_activity_combination")
    /\ Len(ret.args[1]) = 3
    /\ Cardinality(ClashingPairs(ret.args[1])) = 1
    /\ ret.clash_score = Rat(2, 3)


\* s <= t in lexicographic order by character code
LexLeq(s, t) ==
    \/ Len(s) <= Len(t) /\ \A i \in 1..Len(s) : s[i] = t[i]
    \/ \E i \in 1..Len(s) :
          /\ i <= Len(t)
          /\ \A j \in 1..(i - 1) : s[j] = t[j]
          /\ s[i] < t[i]

Occurrences(xs, x) == Cardinality({i \in DOMAIN xs : xs[i] = x})
Reorderings(n) == {p \in [1..n -> 1..n] : \A i, j \in 1..n : i # j => p[i] # p[j]}

\* C12: format_output returns exactly one line per activity, in non-decreasing
\* lexicographic order, and the same sequence for every reordering of the
\* schedule's activities.
C12_FormatOutputSorted ==
    Called("format_output") =>
        LET acts == ret.args[1]
            lines == ret.value
        IN  /\ Len(lines) = Len(acts)
            /\ \A i \in DOMAIN acts :
                   Occurrences(lines, FormatLine(acts[i])) = Occurrences(acts, acts[i])
            /\ \A i \in 1..(Len(lines) - 1) : LexLeq(lines[i], lines[i + 1])
            /\ \A p \in Reorderings(Len(acts)) :
                   format_output([i \in DOMAIN acts |-> acts[p[i]]]) = lines

C12_Witness ==
    /\ Called("format_output")
    /\ Len(ret.args[1]) = 3
    /\ ret.value[1] = FormatLine(ret.args[1][3])
    /\ ret.value[2] = FormatLine(ret.args[1][1])
    /\ ret.value[3] = FormatLine(ret.args[1][2])
    /\ ret.args[1][1].subject_code # ret.args[1][2].subject_code


SecondDone == pc = "done" /\ Called("optimize_timetable")
SameInput == ret.args[1] = data
OnlyTogglesDiffer ==
    /\ ret.args[1].subjects = data.subjects
    /\ ret.args[1].optimization.timeRestrictions = data.optimization.timeRestrictions
    /\ ret.args[1].optimization.avoidDays = data.optimization.avoidDays
    /\ ret.args[1].optimization.preferences # data.optimization.preferences

\* C13: a second run of optimize_timetable on the same catalog and preferences
\* returns the same best schedule with the same best score, and no step of a
\* run changes the catalog or the preferences.
C13_RerunIdentical ==
    /\ [](SecondDone /\ SameInput =>
              /\ result = ret.value.schedule
              /\ best_score = ret.value.score
              /\ output = ret.value.lines)
    /\ [][pc # "done" => data' = data]_vars

C13_Witness ==
    /\ SecondDone
    /\ SameInput
    /\ Len(result) = 2
    /\ Len(scored) = 4


\* C16: a second run on the same catalog, avoidDays and time window that
\* differs from the first only in the preference toggles returns the schedule
\* the first run returned.
C16_TogglesIgnored ==
    SecondDone /\ OnlyTogglesDiffer =>
        /\ result = ret.value.schedule
        /\ output = ret.value.lines

C16_Witness ==
    /\ SecondDone
    /\ OnlyTogglesDiffer
    /\ ~data.optimization.preferences.spreadClasses
    /\ ret.args[1].optimization.preferences.spreadClasses
    /\ Len(scored) = 2
    /\ Len(result) = 1
    /\ Len(data.optimization.avoidDays) = 2
    /\ Deref(result[1]).day_of_week = s_Mon
    /\ \E k \in 1..2 : Deref(scored[k][1]).day_of_week = s_Tue


\* a step that enters a recursive call
Enters == Len(stack) > 0 /\ Len(stack') = Len(stack) + 1
Callee == stack'[Len(stack')]

\* C14: optimize_timetable eventually returns: every recursive call of the
\* group recursion is made with the caller's group index plus one, every
\* recursive call of the subject recursion with the caller's subject index
\* plus one, and no index passes the number of groups or subjects.
C14_Terminates ==
    /\ <>Finished
    /\ [][Enters =>
            /\ (Top.fn = GroupFn /\ Callee.fn = GroupFn) =>
                   /\ Callee.idx = Top.idx + 1
                   /\ Callee.idx <= Len(group_codes(Top.owner))
            /\ Callee.fn = SubjectFn =>
                   /\ Callee.idx = stack[Top.owner].idx + 1
                   /\ Callee.idx <= Len(subject_codes)
            /\ (Top.fn = SubjectFn /\ Callee.fn = GroupFn) => Callee.idx = 0]_vars

C14_Witness ==
    /\ pc = "done"
    /\ ret = NoCall
    /\ Len(data.subjects) = 2
    /\ Len(subject_codes) = 2
    /\ Len(scored) = 4


\* a step of lines 136-138 that appends to or pops from a subject_selection list
Mutates ==
    \E o \in DOMAIN stack :
        /\ o \in DOMAIN stack'
        /\ stack'[o].subject_selection # stack[o].subject_selection

\* C15: at every point the recorded best score is the combined score of the
\* recorded best schedule, no step lowers the recorded best score, and a step
\* that appends to or pops from a partial selection leaves the recorded best
\* schedule as it was.
C15_BestRecorded ==
    /\ [](best_score = score_activity_combination(Derefs(best_combination)))
    /\ [][RGeq(best_score', best_score)]_vars
    /\ [][Mutates => best_combination' = best_combination]_vars

C15_Witness ==
    /\ pc = "search"
    /\ Len(scored) >= 2
    /\ Len(best_combination) = 2
    /\ best_combination = scored[1]
    /\ RGt(One, best_score)
    /\ Len(stack) > 0
    /\ Top.fn = GroupFn
    /\ Top.pc = "called"


GroupsOf(sa) == {ij \in (DOMAIN sa) \X (1..MaxActivities) : ij[2] \in DOMAIN sa[ij[1]].val}
HasEmptyGroup == \E ij \in GroupsOf(subject_activities) :
                     subject_activities[ij[1]].val[ij[2]].val = <<>>
OtherGroups == {ij \in GroupsOf(subject_activities) :
                   subject_activities[ij[1]].val[ij[2]].val # <<>>}
\* rs has exactly one candidate of every group with candidates, and nothing else
OnePerOtherGroup(rs) ==
    /\ Len(rs) = Cardinality(OtherGroups)
    /\ \A ij \in OtherGroups :
           \E k \in DOMAIN rs :
               \E c \in DOMAIN subject_activities[ij[1]].val[ij[2]].val :
                   rs[k] = subject_activities[ij[1]].val[ij[2]].val[c]

BatchSaved == scraper.pc = "idle" /\ scraper.batch > 0

\* C18: the last_processed_index a batch saves is the position of the first
\* input row the batch did not go through, so no row is written to the output
\* file by two batches and no row before the saved position was never attempted.
C18_ResumeIndex ==
    /\ BatchSaved => scraper.state.last_processed_index = scraper.pos - 1
    /\ \A i, j \in DOMAIN scraper.outfile :
           i # j => scraper.outfile[i].row # scraper.outfile[j].row
    /\ BatchSaved =>
           \A row \in 1..scraper.state.last_processed_index :
               row \in DOMAIN scraper.rows => row \in scraper.attempted

====
